---- MODULE Spec2Model ----
(***************************************************************************)
(* Model of src/main.py: the daily-agent scheduler.  One process, single   *)
(* threaded.  Time is a UTC wall clock counted in units of                 *)
(* 60/UnitsPerMinute seconds.  The `schedule` library works on the host's  *)
(* naive local time, the active-hours gate on Asia/Kolkata time.           *)
(***************************************************************************)
EXTENDS Integers, Sequences, FiniteSets

\* ---------------------------------------------------------------- bounds
UnitsPerMinute == 1
HorizonMinutes == 3020
DeferredHorizonMinutes == 1260
\* registrations followed when the registration call is looked at on its own
MaxRegistered == 4
\* longest text the content provider answers with
MaxTextLen == 2

\* ------------------------------------------------------------ time base
Minute == UnitsPerMinute
Hour == 60 * Minute
Day == 24 * Hour
HM(h, m) == h * Hour + m * Minute

\* pytz.timezone('Asia/Kolkata'): UTC+05:30, no DST
ISTOffset == HM(5, 30)
\* the host's UTC offset (the timezone datetime.datetime.now() of the
\* schedule library is read in): UTC, and Asia/Dhaka (UTC+06:00)
HostOffsets == {0, HM(6, 0)}
\* the process is started at 20:10 UTC of day 0
StartClock == HM(20, 10)
MaxClock == HorizonMinutes * Minute
\* a run is followed until MaxClock on the UTC host; on the other host, whose
\* triggers fall before the gate opens, through the first evening
MaxClockOf(off) ==
  IF off = 0 THEN MaxClock ELSE DeferredHorizonMinutes * Minute

\* ------------------------------------------------------------- registry
\* the four jobs, numbered in registration order (lines 222-225)
send_tech_digest == 1
send_news == 2
send_evening_tech_digest == 3
send_meme == 4
Jobs == {send_tech_digest, send_news, send_evening_tech_digest, send_meme}

\* schedule.every().day.at("HH:MM"): the trigger time-of-day of each job
at_time(j) == IF j = send_tech_digest THEN HM(2, 15) ELSE HM(2, 16)

\* TECH_TOPICS and the slices the two digests iterate over; news and meme
\* send one notification each
TECH_TOPICS == <<"AI", "Flutter", "React Native", "SQL", "DevOps">>
NumTopics(j) ==
  IF j = send_tech_digest THEN 2
  ELSE IF j = send_evening_tech_digest THEN Len(TECH_TOPICS) - 2
  ELSE 1

\* the topic the k-th iteration of a digest's loop works on: TECH_TOPICS[:2]
\* for send_tech_digest, TECH_TOPICS[2:] for send_evening_tech_digest
TopicOf(j, k) == IF j = send_tech_digest THEN TECH_TOPICS[k]
                 ELSE TECH_TOPICS[k + 2]

\* time_module.sleep(60)
SleepSeconds == 60
SleepUnits == (SleepSeconds * UnitsPerMinute) \div 60

\* ----------------------------------------------------------------- gate
\* datetime.datetime.now(ist).time(): the IST time-of-day of UTC instant t
ISTTimeOfDay(t) == (t + ISTOffset) % Day
start == HM(2, 0)
end == HM(8, 30)
\* (variant: the end of the window excluded)
is_within_active_hours_exclusive(t) ==
  start <= ISTTimeOfDay(t) /\ ISTTimeOfDay(t) < end
is_within_active_hours(t) ==
  start <= ISTTimeOfDay(t) /\ ISTTimeOfDay(t) <= end

\* ------------------------------------------------------- content getters
\* A text is a sequence of characters: " " stands for a whitespace
\* character, "x" for any other one; a message of the program is written
\* with its words as single elements.
Chars == {" ", "x"}
Texts == UNION {[1..n -> Chars] : n \in 0..MaxTextLen}
\* str.strip()
RECURSIVE lstrip(_)
lstrip(s) == IF s # <<>> /\ Head(s) = " " THEN lstrip(Tail(s)) ELSE s
RECURSIVE rstrip(_)
rstrip(s) ==
  IF s # <<>> /\ s[Len(s)] = " " THEN rstrip(SubSeq(s, 1, Len(s) - 1)) ELSE s
strip(s) == rstrip(lstrip(s))

\* what model.generate_content(prompt) does: it returns a response whose
\* .text is a text, a response without text, or it raises an exception e
\* (text: str(e))
ProviderAnswers ==
  {[kind |-> "text", text |-> t] : t \in Texts}
    \cup {[kind |-> "no_text", text |-> <<>>]}
    \cup {[kind |-> "raises", text |-> t] : t \in {u \in Texts : Len(u) <= 1}}

\* `response.text.strip() if response.text else ""`
stripped_text(answer) ==
  IF answer.kind = "text" /\ answer.text # <<>> THEN strip(answer.text)
  ELSE <<>>
\* f"Error: {str(e)}"
\* (variant: str(e) alone)
ErrorMessage_bare(reason) == reason
ErrorMessage(reason) == <<"Error:", " ">> \o reason

\* (variant: the content is returned without the `if not content` check)
get_learning_content_unchecked(tp, answer) ==
  IF tp = ""
    THEN <<"Error:", " ", "Topic must be a non-empty string.">>
    ELSE IF answer.kind = "raises" THEN ErrorMessage(answer.text)
    ELSE stripped_text(answer)
get_learning_content(tp, answer) ==
  IF tp = ""
    THEN <<"Error:", " ", "Topic must be a non-empty string.">>
    ELSE IF answer.kind = "raises" THEN ErrorMessage(answer.text)
    ELSE IF stripped_text(answer) = <<>>
      THEN <<"Error:", " ", "No content generated for", " ", tp>>
      ELSE stripped_text(answer)
get_news_update(answer) ==
  IF answer.kind = "raises" THEN ErrorMessage(answer.text)
  ELSE IF stripped_text(answer) = <<>>
    THEN <<"Error:", " ", "No news content generated">>
    ELSE stripped_text(answer)
get_meme_update(answer) ==
  IF answer.kind = "raises" THEN ErrorMessage(answer.text)
  ELSE IF stripped_text(answer) = <<>>
    THEN <<"Error:", " ", "No meme content generated">>
    ELSE stripped_text(answer)

\* the message the k-th iteration of handler j passes to send_notification
\* when the provider answers with `answer`
Message(j, k, answer) ==
  CASE j = send_news -> get_news_update(answer)
    [] j = send_meme -> get_meme_update(answer)
    [] OTHER -> get_learning_content(TopicOf(j, k), answer)

\* the kinds of message the model tells apart
NoContentWords == {"No content generated for", "No news content generated",
                   "No meme content generated"}
BodyKind(s) ==
  IF strip(s) = <<>> THEN "blank"
  ELSE IF Head(s) # "Error:" THEN "content"
  ELSE IF Len(s) >= 3 /\ s[3] \in NoContentWords THEN "placeholder"
  ELSE "error"

\* ------------------------------------------------------ schedule library
\* datetime.datetime.now() of the host: naive local time
LocalNow(t, off) == t + off
\* Job._schedule_next_run for every().day.at(T): the first local instant
\* strictly after `now` whose time-of-day is T
NextRunAfter(T, now) ==
  LET today == (now \div Day) * Day + T
  IN  IF today > now THEN today ELSE today + Day
\* Job.should_run
should_run(nr, j, now) == now >= nr[j]
\* sorted(runnable_jobs): Job.__lt__ compares next_run; the sort is stable,
\* so jobs with equal next_run keep their registration order
\* (variant: registration order only)
JobBefore_byRegistration(nr, a, b) == a < b
JobBefore(nr, a, b) == nr[a] < nr[b] \/ (nr[a] = nr[b] /\ a < b)
RECURSIVE SortedJobs(_, _)
SortedJobs(nr, S) ==
  IF S = {} THEN <<>>
  ELSE LET m == CHOOSE a \in S : \A b \in S \ {a} : JobBefore(nr, a, b)
       IN  <<m>> \o SortedJobs(nr, S \ {m})
Runnable(nr, now) == {j \in Jobs : should_run(nr, j, now)}
\* Job.do(job_func): the job is appended to the scheduler's list of jobs;
\* nothing is looked up and nothing is refused
do(reg, j) == Append(reg, j)

\* ---------------------------------------------------------------- state
VARIABLES
  clock,       \* UTC wall clock
  hostOffset,  \* UTC offset of the host's local time
  pc,          \* position of the single thread
  cur,         \* the running handler (0: none, start-up code)
  topic,       \* index of the topic the running handler works on
  body,        \* kind of the body a call of send_notification is entered with
  next_run,    \* Job.next_run of each registered job (host local time)
  queue,       \* sorted(runnable_jobs) still to run in this run_pending
  active,      \* what is_within_active_hours returned to the loop
  signalled,   \* SIGINT has been delivered
  exitFrom,    \* position the thread was at when the process exited
  due,         \* jobs that were runnable when run_pending was entered
  ran,         \* jobs whose handler was invoked in this tick
  failed,      \* job whose handler raised in this tick (0: none)
  fireCount,   \* executions of each job for its current due-instant
  dueKind,     \* how each job's current due-instant was first seen by a poll
  raised,      \* some handler has raised since the process started
  registry,    \* schedule.jobs: the registered jobs, in registration order
  deferred,    \* jobs that were due at a tick whose gate was inactive
  sleeps       \* sleep(60) calls completed since the current tick started

vars == <<clock, hostOffset, pc, cur, topic, body, next_run, queue, active,
          signalled, exitFrom, due, ran, failed, fireCount, dueKind,
          raised, registry, deferred, sleeps>>

BodyKinds == {"content", "placeholder", "error", "blank", "test", "none"}
NoRun == 0

Init ==
  /\ clock = StartClock
  /\ hostOffset \in HostOffsets
  /\ pc = "startup"
  /\ cur = 0
  /\ topic = 0
  /\ body = "none"
  /\ next_run = [j \in Jobs |-> NoRun]
  /\ queue = <<>>
  /\ active = FALSE
  /\ signalled = FALSE
  /\ exitFrom = [pc |-> "none", job |-> 0]
  /\ due = {}
  /\ ran = {}
  /\ failed = 0
  /\ fireCount = [j \in Jobs |-> 0]
  /\ dueKind = [j \in Jobs |-> "none"]
  /\ raised = FALSE
  /\ registry = <<>>
  /\ deferred = {}
  /\ sleeps = 0

\* --------------------------------------------------- calls and returns
\* a call of send_notification(title, message) with a body of kind b
CallSend(b) ==
  /\ pc' = "send"
  /\ body' = b

\* send_notification returns normally to its caller: the start-up code goes
\* on to signal.signal and run_scheduler, a handler to its next topic
ReturnFromSend ==
  /\ body' = "none"
  /\ IF cur = 0
       THEN pc' = "register" /\ topic' = topic
       ELSE IF topic < NumTopics(cur)
              THEN pc' = "content" /\ topic' = topic + 1
              ELSE pc' = "job_done" /\ topic' = topic
  /\ UNCHANGED <<cur, queue, failed, raised>>

\* an exception leaves send_notification: in a handler it unwinds through
\* schedule.run_pending (which catches nothing, so the jobs still queued are
\* dropped) to the loop's `except Exception`; in the start-up code nothing
\* catches it
\* (variant: no tick-level `except Exception`)
RaiseFromSend_uncaught ==
  /\ body' = "none"
  /\ topic' = 0
  /\ queue' = <<>>
  /\ pc' = "crashed"
  /\ failed' = cur
  /\ raised' = (raised \/ cur # 0)
  /\ cur' = 0
RaiseFromSend ==
  /\ body' = "none"
  /\ topic' = 0
  /\ queue' = <<>>
  /\ IF cur = 0
       THEN pc' = "crashed" /\ failed' = failed
       ELSE pc' = "except" /\ failed' = cur
  /\ raised' = (raised \/ cur # 0)
  /\ cur' = 0

\* ------------------------------------------------------------- start-up
\* __main__: send_notification("Test Notification", ...)
Startup ==
  /\ pc = "startup"
  /\ CallSend("test")
  /\ UNCHANGED <<clock, hostOffset, cur, topic, next_run, queue, active,
                 signalled, exitFrom, due, ran, failed, fireCount, dueKind,
                 raised,
                 registry, deferred, sleeps>>

\* signal.signal(SIGINT, signal_handler); run_scheduler registers the four
\* jobs: each next_run is the next local occurrence of its at-time
Register ==
  /\ pc = "register"
  /\ registry' = do(do(do(do(registry, send_tech_digest), send_news),
                       send_evening_tech_digest), send_meme)
  /\ next_run' = [j \in Jobs |->
                    NextRunAfter(at_time(j), LocalNow(clock, hostOffset))]
  /\ pc' = "loop_top"
  /\ UNCHANGED <<clock, hostOffset, cur, topic, body, queue, active,
                 signalled, exitFrom, due, ran, failed, fireCount, dueKind,
                 raised,
                 deferred, sleeps>>

\* ----------------------------------------------------- send_notification
\* lines 72-78: print and log the notification, then get_fcm_access_token,
\* which answers with a token, or with None (no SERVICE_ACCOUNT_JSON, or the
\* credentials could not be built or refreshed)
send_notification ==
  /\ pc = "send"
  /\ \/ \E token \in {"token", "None"} :
          /\ pc' = IF token = "None" THEN "no_token" ELSE "post"
          /\ body' = "none"
          /\ UNCHANGED <<cur, topic, queue, failed, raised>>
     \/ RaiseFromSend
  /\ UNCHANGED <<clock, hostOffset, next_run, active, signalled, exitFrom,
                 due, ran, fireCount, dueKind,
                 registry, deferred, sleeps>>

\* lines 78-80: `if not access_token`: log an error and return; nothing is
\* posted
NoToken ==
  /\ pc = "no_token"
  /\ ReturnFromSend
  /\ UNCHANGED <<clock, hostOffset, next_run, active, signalled, exitFrom,
                 due, ran, fireCount, dueKind, registry, deferred, sleeps>>

\* requests.post has no timeout: the call blocks for as long as the peer
\* takes
PostBlocks ==
  /\ pc = "post"
  /\ clock < MaxClockOf(hostOffset)
  /\ clock' = clock + 1
  /\ UNCHANGED <<hostOffset, pc, cur, topic, body, next_run, queue, active,
                 signalled, exitFrom, due, ran, failed, fireCount, dueKind,
                 raised,
                 registry, deferred, sleeps>>

\* lines 107-111: the post succeeds, or fails with a RequestException that
\* is caught, or something that is not a RequestException is raised
PostDone ==
  /\ pc = "post"
  /\ \E outcome \in {"ok", "RequestException", "Exception"} :
       CASE outcome = "ok" -> ReturnFromSend
         [] outcome = "RequestException" ->
              /\ pc' = "post_failed"
              /\ UNCHANGED <<cur, topic, body, queue, failed, raised>>
         [] OTHER -> RaiseFromSend
  /\ UNCHANGED <<clock, hostOffset, next_run, active, signalled, exitFrom,
                 due, ran, fireCount, dueKind,
                 registry, deferred, sleeps>>

\* lines 111-112: except requests.RequestException: log the error; the
\* function returns
\* (variant: the RequestException is not caught)
PostFailed_raises ==
  /\ pc = "post_failed"
  /\ RaiseFromSend
  /\ UNCHANGED <<clock, hostOffset, next_run, active, signalled, exitFrom,
                 due, ran, fireCount, dueKind, registry, deferred, sleeps>>
PostFailed ==
  /\ pc = "post_failed"
  /\ ReturnFromSend
  /\ UNCHANGED <<clock, hostOffset, next_run, active, signalled, exitFrom,
                 due, ran, fireCount, dueKind, registry, deferred, sleeps>>

\* ------------------------------------------------------------- handlers
\* the first lines of each handler: its own gate check
\* (variant: a handler that does not look at the gate)
HandlerGate_noRecheck ==
  /\ pc = "handler"
  /\ pc' = "content"
  /\ topic' = 1
  /\ UNCHANGED <<clock, hostOffset, cur, body, next_run, queue, active,
                 signalled, exitFrom, due, ran, failed, fireCount, dueKind,
                 raised, registry, deferred, sleeps>>
HandlerGate ==
  /\ pc = "handler"
  /\ IF is_within_active_hours(clock)
       THEN pc' = "content" /\ topic' = 1
       ELSE pc' = "job_done" /\ topic' = 0
  /\ UNCHANGED <<clock, hostOffset, cur, body, next_run, queue, active,
                 signalled, exitFrom, due, ran, failed, fireCount, dueKind,
                 raised,
                 registry, deferred, sleeps>>

\* get_learning_content / get_news_update / get_meme_update: the call of
\* the content provider blocks for as long as the provider takes
ContentBlocks ==
  /\ pc = "content"
  /\ clock < MaxClockOf(hostOffset)
  /\ clock' = clock + 1
  /\ UNCHANGED <<hostOffset, pc, cur, topic, body, next_run, queue, active,
                 signalled, exitFrom, due, ran, failed, fireCount, dueKind,
                 raised,
                 registry, deferred, sleeps>>

\* the provider answers; the getter returns the stripped text, a
\* placeholder or "Error: <reason>", and the handler passes what it got to
\* send_notification
GetContent ==
  /\ pc = "content"
  /\ \E b \in {BodyKind(Message(cur, topic, a)) : a \in ProviderAnswers} :
       CallSend(b)
  /\ UNCHANGED <<clock, hostOffset, cur, topic, next_run, queue, active,
                 signalled, exitFrom, due, ran, failed, fireCount, dueKind,
                 raised,
                 registry, deferred, sleeps>>

\* Job.run after job_func returned: last_run = now, _schedule_next_run
\* (variant: the job is cancelled after its run, as for a job_func that
\* returns schedule.CancelJob)
JobDone_cancels ==
  /\ pc = "job_done"
  /\ registry' = SelectSeq(registry, LAMBDA r : r # cur)
  /\ fireCount' = [fireCount EXCEPT ![cur] = 0]
  /\ dueKind' = [dueKind EXCEPT ![cur] = "none"]
  /\ deferred' = deferred \ {cur}
  /\ topic' = 0
  /\ cur' = 0
  /\ pc' = "run_pending"
  /\ UNCHANGED <<clock, hostOffset, body, next_run, queue, active, signalled,
                 exitFrom, due, ran, failed, raised, sleeps>>
JobDone ==
  /\ pc = "job_done"
  /\ next_run' = [next_run EXCEPT ![cur] =
                    NextRunAfter(at_time(cur), LocalNow(clock, hostOffset))]
  /\ fireCount' = [fireCount EXCEPT ![cur] = 0]
  /\ dueKind' = [dueKind EXCEPT ![cur] = "none"]
  /\ deferred' = deferred \ {cur}
  /\ topic' = 0
  /\ cur' = 0
  /\ pc' = "run_pending"
  /\ UNCHANGED <<clock, hostOffset, body, queue, active, signalled,
                 exitFrom, due, ran, failed, raised,
                 registry, sleeps>>

\* ------------------------------------------------------- scheduler loop
\* how a poll at local time `now` first sees the due-instant d: not yet
\* due, due exactly at the poll, or passed since the previous poll
FirstSeen(d, now) ==
  IF now < d THEN "none" ELSE IF now = d THEN "at_poll" ELSE "between"

\* lines 236-240: top of a tick, the loop asks the gate
LoopTop ==
  /\ pc = "loop_top"
  /\ active' = is_within_active_hours(clock)
  /\ pc' = "checked"
  /\ due' = {}
  /\ ran' = {}
  /\ failed' = 0
  /\ sleeps' = 0
  /\ dueKind' = [j \in Jobs |->
                   IF dueKind[j] # "none" THEN dueKind[j]
                   ELSE FirstSeen(next_run[j], LocalNow(clock, hostOffset))]
  /\ UNCHANGED <<clock, hostOffset, cur, topic, body, next_run, queue,
                 signalled, exitFrom, fireCount, raised,
                 registry, deferred>>

\* the jobs schedule.run_pending finds runnable: the registered jobs whose
\* should_run is true
runnable_jobs ==
  Runnable(next_run, LocalNow(clock, hostOffset))
    \cap {registry[i] : i \in DOMAIN registry}

\* line 240: if the gate is active enter schedule.run_pending, which first
\* collects and sorts the runnable jobs; else log and go to the sleep
\* (variant: run_pending entered without looking at the gate)
GateBranch_ignoresGate ==
  /\ pc = "checked"
  /\ pc' = "run_pending"
  /\ due' = runnable_jobs
  /\ queue' = SortedJobs(next_run, due')
  /\ deferred' = deferred
  /\ UNCHANGED <<clock, hostOffset, cur, topic, body, next_run, active,
                 signalled, exitFrom, ran, failed, fireCount, dueKind,
                 raised,
                 registry, sleeps>>
GateBranch ==
  /\ pc = "checked"
  /\ IF active
       THEN /\ pc' = "run_pending"
            /\ due' = runnable_jobs
            /\ queue' = SortedJobs(next_run, due')
            /\ deferred' = deferred
       ELSE /\ pc' = "sleep"
            /\ deferred' = deferred \cup runnable_jobs
            /\ UNCHANGED <<due, queue>>
  /\ UNCHANGED <<clock, hostOffset, cur, topic, body, next_run, active,
                 signalled, exitFrom, ran, failed, fireCount, dueKind,
                 raised,
                 registry, sleeps>>

\* schedule.run_pending: run the next job of the sorted list, or return to
\* the loop (line 242) when the list is exhausted
\* (variant: the next run is scheduled before the handler is called)
run_pending_schedulesFirst ==
  /\ pc = "run_pending"
  /\ IF queue = <<>>
       THEN /\ pc' = "sleep"
            /\ UNCHANGED <<cur, queue, ran, fireCount, next_run>>
       ELSE /\ pc' = "handler"
            /\ cur' = Head(queue)
            /\ queue' = Tail(queue)
            /\ ran' = ran \cup {Head(queue)}
            /\ fireCount' = [fireCount EXCEPT ![Head(queue)] =
                               IF @ < 2 THEN @ + 1 ELSE @]
            /\ next_run' = [next_run EXCEPT ![Head(queue)] =
                              NextRunAfter(at_time(Head(queue)),
                                           LocalNow(clock, hostOffset))]
  /\ UNCHANGED <<clock, hostOffset, topic, body, active,
                 signalled, exitFrom, due, failed, dueKind,
                 raised, registry, deferred, sleeps>>
run_pending ==
  /\ pc = "run_pending"
  /\ IF queue = <<>>
       THEN /\ pc' = "sleep"
            /\ UNCHANGED <<cur, queue, ran, fireCount>>
       ELSE /\ pc' = "handler"
            /\ cur' = Head(queue)
            /\ queue' = Tail(queue)
            /\ ran' = ran \cup {Head(queue)}
            /\ fireCount' = [fireCount EXCEPT ![Head(queue)] =
                               IF @ < 2 THEN @ + 1 ELSE @]
  /\ UNCHANGED <<clock, hostOffset, topic, body, next_run, active,
                 signalled, exitFrom, due, failed, dueKind,
                 raised,
                 registry, deferred, sleeps>>

\* line 245: time_module.sleep(60)
Sleep ==
  /\ pc = "sleep"
  /\ clock + SleepUnits <= MaxClockOf(hostOffset)
  /\ clock' = clock + SleepUnits
  /\ sleeps' = sleeps + 1
  /\ pc' = "loop_top"
  /\ UNCHANGED <<hostOffset, cur, topic, body, next_run, queue, active,
                 signalled, exitFrom, due, ran, failed, fireCount, dueKind,
                 raised,
                 registry, deferred>>

\* lines 249-251: except Exception: log the error, sleep(60), next tick
\* (variant: the error is logged and the next tick starts without a sleep)
ExceptSleep_noSleep ==
  /\ pc = "except"
  /\ pc' = "loop_top"
  /\ UNCHANGED <<clock, hostOffset, cur, topic, body, next_run, queue, active,
                 signalled, exitFrom, due, ran, failed, fireCount, dueKind,
                 raised, registry, deferred, sleeps>>
ExceptSleep ==
  /\ pc = "except"
  /\ clock + SleepUnits <= MaxClockOf(hostOffset)
  /\ clock' = clock + SleepUnits
  /\ sleeps' = sleeps + 1
  /\ pc' = "loop_top"
  /\ UNCHANGED <<hostOffset, cur, topic, body, next_run, queue, active,
                 signalled, exitFrom, due, ran, failed, fireCount, dueKind,
                 raised,
                 registry, deferred>>

\* ------------------------------------------------------------- shutdown
\* SIGINT.  Once signal_handler is installed it runs at the instruction the
\* thread is at and calls sys.exit(0): SystemExit is a BaseException, so
\* neither the getters' `except Exception` nor the loop's handlers catch
\* it.  Before that the default handler raises KeyboardInterrupt, which the
\* start-up code does not catch either.  The process is gone, and with it
\* everything it held in memory.
Terminal == {"exited", "crashed"}
signal_handler ==
  /\ pc \notin Terminal
  /\ signalled' = TRUE
  /\ exitFrom' = [pc |-> pc, job |-> cur]
  /\ pc' = "exited"
  /\ cur' = 0
  /\ topic' = 0
  /\ body' = "none"
  /\ queue' = <<>>
  /\ due' = {}
  /\ ran' = {}
  /\ failed' = 0
  /\ fireCount' = [j \in Jobs |-> 0]
  /\ dueKind' = [j \in Jobs |-> "none"]
  /\ next_run' = [j \in Jobs |-> NoRun]
  /\ active' = FALSE
  /\ raised' = FALSE
  /\ registry' = <<>>
  /\ deferred' = {}
  /\ sleeps' = 0
  /\ UNCHANGED <<clock, hostOffset>>

Next ==
  \/ Startup
  \/ Register
  \/ send_notification
  \/ NoToken
  \/ PostBlocks
  \/ PostDone
  \/ PostFailed
  \/ HandlerGate
  \/ ContentBlocks
  \/ GetContent
  \/ JobDone
  \/ LoopTop
  \/ GateBranch
  \/ run_pending
  \/ Sleep
  \/ ExceptSleep
  \/ signal_handler

Spec == Init /\ [][Next]_vars

\* ------------------------------------------- the registration call alone
\* schedule.every().day.at(T).do(job_func) applied to any of the handlers,
\* any number of times and in any order, from the state in which
\* run_scheduler is entered
InitRegister ==
  /\ clock = StartClock
  /\ hostOffset \in HostOffsets
  /\ pc = "register"
  /\ cur = 0
  /\ topic = 0
  /\ body = "none"
  /\ next_run = [j \in Jobs |-> NoRun]
  /\ queue = <<>>
  /\ active = FALSE
  /\ signalled = FALSE
  /\ exitFrom = [pc |-> "none", job |-> 0]
  /\ due = {}
  /\ ran = {}
  /\ failed = 0
  /\ fireCount = [j \in Jobs |-> 0]
  /\ dueKind = [j \in Jobs |-> "none"]
  /\ raised = FALSE
  /\ registry = <<>>
  /\ deferred = {}
  /\ sleeps = 0

RegisterOne(j) ==
  /\ pc = "register"
  /\ Len(registry) < MaxRegistered
  /\ registry' = do(registry, j)
  /\ next_run' = [next_run EXCEPT ![j] =
                    NextRunAfter(at_time(j), LocalNow(clock, hostOffset))]
  /\ UNCHANGED <<clock, hostOffset, pc, cur, topic, body, queue, active,
                 signalled, exitFrom, due, ran, failed, fireCount, dueKind,
                 raised, deferred, sleeps>>

NextRegister == \E j \in Jobs : RegisterOne(j)

RegisterSpec == InitRegister /\ [][NextRegister]_vars

TypeOK ==
  /\ clock \in StartClock..MaxClock
  /\ hostOffset \in HostOffsets
  /\ cur \in Jobs \cup {0}
  /\ body \in BodyKinds
  /\ active \in BOOLEAN
  /\ registry \in Seq(Jobs)
  /\ deferred \subseteq Jobs
  /\ sleeps \in Nat

\* ================================================================ claims
\* IST time-of-day of the clock, computed from the minutes of the day
ClaimTod == (clock + 330 * Minute) % (1440 * Minute)
\* a handler of the current tick is being run by the loop
InTickWork ==
  \/ pc \in {"run_pending", "handler", "content", "job_done", "except"}
  \/ pc \in {"send", "no_token", "post", "post_failed"} /\ cur # 0

\* C1: every call of send_notification, from a handler or from start-up,
\* happens at an instant at which the active-hours gate is true.
NotifyOnlyWhenActive ==
  pc = "send" => is_within_active_hours(clock)

\* C2: the gate answers true exactly when start <= IST time-of-day <= end,
\* both bounds included, and always answers with a boolean.
GateInclusiveBounds ==
  pc = "checked" =>
    /\ active \in BOOLEAN
    /\ active = (ClaimTod \in start..end)
\* the loop asked the gate exactly at the end of the window and it was open
GateAskedAtEnd ==
  pc = "checked" /\ ClaimTod = end /\ active

\* C3: the gate is open exactly from 11:30 to 23:30 IST.
WindowIs1130To2330 ==
  pc = "checked" => (active = (ClaimTod \in HM(11, 30)..HM(23, 30)))

\* C4: in a tick in which the gate reports inactive no handler is invoked
\* and no notification is sent, even for a due job, and the loop goes
\* directly to the sleep.
InactiveTickStaysIdle ==
  /\ [](InTickWork => active)
  /\ []((pc \in {"checked", "sleep"} /\ ~active) =>
          (ran = {} /\ cur = 0 /\ queue = <<>>))
  /\ [][(pc = "checked" /\ ~active) => pc' \in {"sleep", "exited"}]_vars
\* an inactive tick reached its sleep while a job was due
IdleWhileJobDue ==
  /\ pc = "sleep"
  /\ ~active
  /\ \E j \in Jobs : next_run[j] <= LocalNow(clock, hostOffset)

\* C5: when the handler of one due job raises, every other job due in that
\* tick is still executed in that tick.
FailureIsolatedPerJob ==
  (pc = "except" /\ failed # 0) => \A j \in due \ {failed} : j \in ran

\* C6: a job is executed at most once for each of its due-instants.
FiredOncePerDueInstant ==
  \A j \in Jobs : fireCount[j] <= 1

\* C7: a job whose due-instant fell strictly between two polls has been
\* executed by the end of the first tick at or after it whose gate is active.
NoTriggerMissedBetweenPolls ==
  (pc \in {"sleep", "except"} /\ active) =>
    \A j \in Jobs : dueKind[j] = "between" => j \in ran

\* the thread is inside the loop of run_scheduler
LoopRunning ==
  \/ pc \in {"loop_top", "checked", "run_pending", "handler", "content",
             "job_done", "sleep", "except"}
  \/ pc \in {"send", "no_token", "post", "post_failed"} /\ cur # 0
\* C8: an exception raised inside a tick is caught at the tick level, the
\* loop sleeps and starts the next tick; the loop stops running only after
\* a shutdown signal (the process can die of an exception only in the
\* start-up code, before any job is registered).
LoopSurvivesFailures ==
  /\ [][pc = "except" => pc' \in {"loop_top", "exited"}]_vars
  /\ [][LoopRunning => (LoopRunning' \/ (pc' = "exited" /\ signalled'))]_vars
  /\ [](pc = "crashed" => next_run = [j \in Jobs |-> NoRun])
\* a tick failed, the loop slept and is at the top of the next tick
NextTickAfterFailure ==
  pc = "loop_top" /\ failed # 0 /\ ~signalled

\* C9: a SIGINT never interrupts a tick in progress; in particular the
\* process never exits while a job handler is running.
ShutdownOnlyBetweenTicks ==
  pc = "exited" => exitFrom.job = 0

RegistryFixed ==
  /\ [](pc \in {"startup", "register"} => registry = <<>>)
  /\ [](LoopRunning =>
          /\ registry = <<send_tech_digest, send_news,
                          send_evening_tech_digest, send_meme>>
          /\ \A j \in Jobs :
               next_run[j] # NoRun /\ next_run[j] % Day = at_time(j))
  /\ [][LoopRunning => (registry' = registry \/ pc' = "exited")]_vars
\* a tick in which one job's run returned and another job's run raised has
\* ended, with the four jobs registered
RegistryAfterRunAndFailure ==
  /\ pc = "except"
  /\ failed # 0
  /\ ran # {failed}
  /\ Len(registry) = 4

BodyNeverBlank ==
  /\ pc = "content" =>
       \A a \in ProviderAnswers :
         (a.kind # "raises" /\ strip(a.text) = <<>>) =>
           /\ strip(Message(cur, topic, a)) # <<>>
           /\ BodyKind(Message(cur, topic, a)) = "placeholder"
  /\ (pc = "send" /\ cur # 0) => body \in BodyKinds \ {"blank", "none"}
\* send_meme passes the placeholder on after an answer without content
PlaceholderSent ==
  /\ pc = "send"
  /\ cur = send_meme
  /\ body = "placeholder"

\* the thread is inside send_notification, past its first lines
InSend == pc \in {"no_token", "post", "post_failed"}
\* C14: when the content provider fails for a topic the handler does not
\* fail: the getter's result, the body, is "Error: <reason>",
\* send_notification is called with that body, once for the topic, and
\* after the call the handler goes on with its next topic.
ProviderFailureBecomesBody ==
  /\ [](pc = "content" =>
          \A a \in ProviderAnswers :
            a.kind = "raises" =>
              /\ Message(cur, topic, a) = <<"Error:", " ">> \o a.text
              /\ BodyKind(Message(cur, topic, a)) = "error")
  /\ [][(pc = "content" /\ pc' \notin {"content", "exited"}) =>
         /\ pc' = "send"
         /\ body' \in {"content", "placeholder", "error"}
         /\ cur' = cur
         /\ topic' = topic]_vars
  /\ [][(cur # 0 /\ InSend /\ pc' \in {"content", "job_done"}) =>
         /\ cur' = cur
         /\ pc' = "content" <=> topic < NumTopics(cur)
         /\ pc' = "content" => topic' = topic + 1]_vars
\* send_tech_digest calls send_notification with the error text it got for
\* its first topic
ErrorBodySent ==
  /\ pc = "send"
  /\ cur = send_tech_digest
  /\ topic = 1
  /\ body = "error"

\* C15: a delivery failure does not abort the job: without an access token
\* send_notification posts nothing and returns normally, and when the post
\* fails it returns normally too; in both cases the calling handler goes on
\* with its next topic (and the start-up code with the registration).
DeliveryFailureReturns ==
  /\ [][(pc' = "no_token" /\ pc # "no_token") => pc = "send"]_vars
  /\ [][(pc \in {"no_token", "post_failed"} /\ pc' \notin {pc, "exited"}) =>
         /\ cur' = cur
         /\ failed' = failed
         /\ raised' = raised
         /\ queue' = queue
         /\ pc' = IF cur = 0 THEN "register"
                  ELSE IF topic < NumTopics(cur) THEN "content"
                  ELSE "job_done"
         /\ pc' = "content" => topic' = topic + 1]_vars
\* the post of the second of send_evening_tech_digest's three topics failed
PostFailedMidDigest ==
  /\ pc = "post_failed"
  /\ cur = send_evening_tech_digest
  /\ topic = 2

\* C16: a job whose trigger time passed while the gate was inactive is
\* deferred, not dropped: it stays due across the inactive ticks and is
\* executed exactly once, at the first later tick whose gate is active.
DeferredRunsOnceWhenActive ==
  /\ \A j \in deferred :
       /\ next_run[j] <= LocalNow(clock, hostOffset)
       /\ fireCount[j] <= 1
  /\ (pc \in {"sleep", "except"} /\ active) => \A j \in deferred : j \in ran

\* C17: a handler that starts when the gate is no longer active, in a tick
\* whose gate the loop found active, returns at once, without generating
\* content and without a notification; its job counts as run: the next run
\* is the job's next daily due-instant.
HandlerRechecksGate ==
  /\ [][(pc = "handler" /\ active /\ ClaimTod \notin start..end
          /\ pc' # "exited") =>
         /\ pc' = "job_done"
         /\ topic' = 0
         /\ cur' = cur
         /\ body' = "none"]_vars
  /\ [][(pc = "job_done" /\ topic = 0 /\ pc' = "run_pending") =>
         /\ next_run'[cur] > LocalNow(clock, hostOffset)
         /\ next_run'[cur] <= LocalNow(clock, hostOffset) + Day
         /\ next_run'[cur] % Day = at_time(cur)
         /\ fireCount'[cur] = 0
         /\ cur \notin deferred']_vars
\* a handler has returned without working on any topic, in a tick the loop
\* had found active
HandlerSkippedInActiveTick ==
  /\ pc = "job_done"
  /\ topic = 0
  /\ active
  /\ ClaimTod \notin start..end

\* C18: when a handler raises during schedule.run_pending the exception
\* reaches the loop's tick-level handler, the job's next-run time is not
\* advanced and the due jobs still queued are not run in that tick; the
\* failed job stays due and is executed again at every later tick whose
\* gate is active, until one execution returns normally.
FailedJobRetried ==
  /\ [][(failed = 0 /\ failed' # 0) =>
         /\ pc' = "except"
         /\ failed' = cur
         /\ next_run' = next_run
         /\ queue' = <<>>
         /\ ran' = ran]_vars
  /\ [][(pc = "except" /\ pc' # "exited") =>
         (pc' = "loop_top" /\ ran' = ran /\ next_run' = next_run)]_vars
  /\ [](\A j \in Jobs :
          (fireCount[j] >= 1 /\ LoopRunning) =>
            /\ next_run[j] <= LocalNow(clock, hostOffset)
            /\ (pc \in {"sleep", "except"} /\ active) => j \in ran)
\* a job whose handler raised in an earlier tick is being executed again
FailedJobRunsAgain ==
  /\ pc = "handler"
  /\ fireCount[cur] = 2
  /\ raised

\* C19: between the start of a tick and the start of the next one the loop
\* sleeps exactly once, for 60 seconds, whether the gate was active or
\* inactive or the tick raised an exception: never no sleep, never two.
OneSleepPerTick ==
  /\ [](sleeps <= 1)
  /\ [][(pc = "loop_top" /\ pc' = "checked") => sleeps' = 0]_vars
  /\ [][sleeps' = sleeps + 1 => clock' = clock + Minute]_vars
  /\ [][(LoopRunning /\ pc # "loop_top" /\ pc' = "loop_top") =>
         (sleeps = 0 /\ sleeps' = 1)]_vars
\* the loop is at the top of the next tick after a tick that raised, having
\* slept once
NextTickAfterOneSleep ==
  /\ pc = "loop_top"
  /\ sleeps = 1
  /\ failed # 0

====
